---- MODULE Spec2Model ----
(***************************************************************************)
(* scripts/ci/package-release.py: the pruned, symlink-preserving release   *)
(* archiver.  A run of main() is modelled as a state machine over a small  *)
(* filesystem: argument handling and package_release's validation and      *)
(* archive creation (Main), one step per directory that os.walk yields     *)
(* (WalkDir), one step per file name of that directory (SkipZip,           *)
(* AddFileToZip, AddFileRaises), and the normal exit (Finish).             *)
(*                                                                         *)
(* Names and texts are strings, handled character by character; a path is  *)
(* the sequence of its components, absolute from the filesystem root.      *)
(***************************************************************************)
EXTENDS Integers, Sequences, FiniteSets, TLC

VARIABLES fs, pc, src_dir, archive_name, zip_path, src, stack, root, files,
          zipf, visited, result, stdout, stderr

vars == <<fs, pc, src_dir, archive_name, zip_path, src, stack, root, files,
          zipf, visited, result, stdout, stderr>>

(***************************************************************************)
(* Bounds of the model.                                                    *)
(***************************************************************************)
\* the number of files and symlinks placed in the source tree
MaxLeaves == 3
\* the number of symbolic links followed while resolving one path
MaxLinkHops == 2

None == "<None>"
NoPath == <<"<None>">>

(***************************************************************************)
(* Strings.                                                                *)
(***************************************************************************)
\* str.startswith
StartsWith(s, p) == Len(s) >= Len(p) /\ SubSeq(s, 1, Len(p)) = p

Char(s, i) == SubSeq(s, i, i)

\* str.rfind(c) for a one-character c, as a 1-based index; 0 when absent
RECURSIVE RFindFrom(_, _, _)
RFindFrom(s, c, i) ==
    IF i = 0 THEN 0
    ELSE IF Char(s, i) = c THEN i
    ELSE RFindFrom(s, c, i - 1)

RFind(s, c) == RFindFrom(s, c, Len(s))

\* "/".join(parts)
RECURSIVE JoinSlash(_)
JoinSlash(parts) ==
    IF parts = <<>> THEN ""
    ELSE IF Len(parts) = 1 THEN parts[1]
    ELSE parts[1] \o "/" \o JoinSlash(Tail(parts))

\* s.split("/"): the pieces between the slashes, empty ones included
RECURSIVE SplitFrom(_, _, _)
SplitFrom(s, i, cur) ==
    IF i > Len(s) THEN <<cur>>
    ELSE IF Char(s, i) = "/" THEN <<cur>> \o SplitFrom(s, i + 1, "")
    ELSE SplitFrom(s, i + 1, cur \o Char(s, i))

SplitSlash(s) == SplitFrom(s, 1, "")

\* the elements of a sequence that are in a set, in order
RECURSIVE Filter(_, _)
Filter(seq, keep) ==
    IF seq = <<>> THEN <<>>
    ELSE IF Head(seq) \in keep THEN <<Head(seq)>> \o Filter(Tail(seq), keep)
    ELSE Filter(Tail(seq), keep)

Range(seq) == {seq[i] : i \in 1..Len(seq)}

\* every ordering of a finite set
Perms(S) == {q \in [1..Cardinality(S) -> S] : Range(q) = S}

(***************************************************************************)
(* pathlib.PurePosixPath: [anchor, parts].  Parsing drops empty and "."     *)
(* components and keeps a leading "/" as the anchor.                       *)
(***************************************************************************)
PurePosixPath(s) ==
    LET pieces == SplitSlash(s)
    IN [anchor |-> IF StartsWith(s, "/") THEN "/" ELSE "",
        parts  |-> Filter(pieces, Range(pieces) \ {"", "."})]

RelPath(parts) == [anchor |-> "", parts |-> parts]

\* PurePosixPath.joinpath with a relative argument
joinpath(p, q) == [anchor |-> p.anchor, parts |-> p.parts \o q.parts]

\* PurePosixPath.as_posix and str()
as_posix(p) ==
    IF p.anchor = "" /\ p.parts = <<>> THEN "."
    ELSE p.anchor \o JoinSlash(p.parts)

\* PurePosixPath.name: the last component, "" when there is none
name(p) == IF p.parts = <<>> THEN "" ELSE p.parts[Len(p.parts)]

\* PurePosixPath.suffix: from the last dot of the name, unless that dot is
\* the first or the last character of the name
suffix(p) ==
    LET n == name(p)
        i == RFind(n, ".")
    IN IF 1 < i /\ i < Len(n) THEN SubSeq(n, i, Len(n)) ELSE ""

(***************************************************************************)
(* The filesystem: a function from absolute paths to nodes.                *)
(***************************************************************************)
Dir == [kind |-> "dir", data |-> ""]
File(bytes) == [kind |-> "file", data |-> bytes]
Symlink(target) == [kind |-> "symlink", data |-> target]

Parent(p) == SubSeq(p, 1, Len(p) - 1)

IsPrefix(p, q) == Len(p) <= Len(q) /\ SubSeq(q, 1, Len(p)) = p

\* the real path of base/rest: symbolic links followed component by
\* component (a relative target is taken from the link's directory)
RECURSIVE RealFrom(_, _, _, _)
RealFrom(f, base, rest, hops) ==
    IF rest = <<>> THEN base
    ELSE LET p == Append(base, Head(rest))
         IN IF p \in DOMAIN f /\ f[p].kind = "symlink"
            THEN IF hops = 0 THEN NoPath
                 ELSE LET t == PurePosixPath(f[p].data)
                      IN RealFrom(f, IF t.anchor = "/" THEN <<>> ELSE base,
                                  t.parts \o Tail(rest), hops - 1)
            ELSE RealFrom(f, p, Tail(rest), hops)

\* pathlib.Path.resolve
resolve(f, p) == RealFrom(f, <<>>, p, MaxLinkHops)

\* os.stat: the node a path leads to, links followed
Exists(f, p) == resolve(f, p) \in DOMAIN f
IsDir(f, p) == Exists(f, p) /\ f[resolve(f, p)].kind = "dir"
IsSymlink(f, p) == p \in DOMAIN f /\ f[p].kind = "symlink"

\* os.scandir: the names in a directory
Listing(f, d) == {p[Len(p)] : p \in {q \in DOMAIN f : Len(q) = Len(d) + 1 /\ Parent(q) = d}}

(***************************************************************************)
(* The program's constants.                                                *)
(***************************************************************************)
IGNORED_DIRS ==
    {".git", ".bun", ".turbo", "workspace", "performance", "data", "doc",
     "integration-tests", "test-data", "coverage", "tmp", "test-results",
     "test-workspace"}

IGNORED_PATH_PREFIXES ==
    {PurePosixPath("packages/sidflow-web/.next/cache"),
     PurePosixPath("node_modules/.cache")}

DEFAULT_ARCHIVE_NAME == "sidflow-release"

\* zipfile: create_system 3 is Unix
UNIX == 3
\* 0o120755, the st_mode of a symbolic link (the high half of external_attr)
SYMLINK_MODE == 1 * 32768 + 2 * 4096 + 0 * 512 + 7 * 64 + 5 * 8 + 5
\* the st_mode of the regular files of the model, 0o100644
FILE_MODE == 1 * 32768 + 0 * 4096 + 0 * 512 + 6 * 64 + 4 * 8 + 4
\* stat.S_IFMT: the file type bits of a mode
S_IFMT(mode) == (mode \div 4096) * 4096
S_IFLNK == 10 * 4096
ZIP_STORED == "stored"
ZIP_DEFLATED == "deflated"

(***************************************************************************)
(* should_skip_dir(rel_dir)                                                *)
(***************************************************************************)
should_skip_dir_names_only(rel_dir) == name(rel_dir) \in IGNORED_DIRS

should_skip_dir(rel_dir) ==
    \/ name(rel_dir) \in IGNORED_DIRS
    \/ \E prefix \in IGNORED_PATH_PREFIXES :
          StartsWith(as_posix(rel_dir), as_posix(prefix))

(***************************************************************************)
(* add_file_to_zip(zipf, abs_path, arc_path): the archive with the entry   *)
(* appended.  zipfile.write names a regular file's entry by the arcname    *)
(* without its leading slashes (ZipInfo.from_file); ZipInfo(name) keeps    *)
(* the name as given.                                                      *)
(***************************************************************************)
FromFileName(arc_path) == as_posix([anchor |-> "", parts |-> arc_path.parts])

add_file_to_zip_deref(z, f, abs_path, arc_path, rel_file) ==
    Append(z, [filename      |-> FromFileName(arc_path),
               create_system |-> UNIX,
               mode          |-> FILE_MODE,
               compress_type |-> ZIP_DEFLATED,
               content       |-> IF Exists(f, abs_path)
                                 THEN f[resolve(f, abs_path)].data ELSE "",
               abs_path      |-> abs_path,
               rel           |-> rel_file])

add_file_to_zip(z, f, abs_path, arc_path, rel_file) ==
    IF IsSymlink(f, abs_path)
    THEN Append(z, [filename      |-> as_posix(arc_path),
                    create_system |-> UNIX,
                    mode          |-> SYMLINK_MODE,
                    compress_type |-> ZIP_STORED,
                    content       |-> f[abs_path].data,
                    abs_path      |-> abs_path,
                    rel           |-> rel_file])
    ELSE Append(z, [filename      |-> FromFileName(arc_path),
                    create_system |-> UNIX,
                    mode          |-> FILE_MODE,
                    compress_type |-> ZIP_DEFLATED,
                    content       |-> f[abs_path].data,
                    abs_path      |-> abs_path,
                    rel           |-> rel_file])

(***************************************************************************)
(* iter_files(src_root): the pieces of the loop body.                      *)
(***************************************************************************)
\* pathlib.Path(root).relative_to(src_root), as a PurePosixPath
relative_to_keeping_name(r, src_root) ==
    RelPath(SubSeq(r, Len(src_root), Len(r)))

relative_to(r, src_root) == RelPath(SubSeq(r, Len(src_root) + 1, Len(r)))

\* os.walk's split of a listing: entry.is_dir() follows symbolic links
walk_dirs(f, top) == {d \in Listing(f, top) : IsDir(f, Append(top, d))}
walk_nondirs(f, top) == Listing(f, top) \ walk_dirs(f, top)

\* dirs[:] = [d for d in dirs if not should_skip_dir(rel_root_posix.joinpath(d))]
prune_nothing(rel_root_posix, dirs) == dirs

prune(rel_root_posix, dirs) ==
    {d \in dirs : ~should_skip_dir(joinpath(rel_root_posix, RelPath(<<d>>)))}

\* os.walk (followlinks=False) descends into the kept dirs that are no links
walk_descend(f, top, dirs) == {d \in dirs : ~IsSymlink(f, Append(top, d))}

\* if rel_file.suffix == ".zip": continue
is_skipped_zip_endswith(rel_file) ==
    LET n == name(rel_file)
    IN Len(n) >= 4 /\ SubSeq(n, Len(n) - 3, Len(n)) = ".zip"

is_skipped_zip(rel_file) == suffix(rel_file) = ".zip"

\* arc_path = pathlib.PurePosixPath(archive_name).joinpath(rel_posix)
arc_path_bare(an, rel_posix) == rel_posix

arc_path_of(an, rel_posix) == joinpath(PurePosixPath(an), rel_posix)

(***************************************************************************)
(* package_release(src_dir, archive_name, zip_path), up to the open        *)
(* archive: [exc, fs].  exc is the raised exception's message, None when   *)
(* the archive file is open for writing.                                   *)
(***************************************************************************)
PathStr(p) == "/" \o JoinSlash(p)

\* Path.mkdir(parents=True, exist_ok=True)
RECURSIVE Mkdirs(_, _)
Mkdirs(f, d) ==
    IF d = <<>> \/ d \in DOMAIN f THEN f
    ELSE Mkdirs(f, Parent(d)) @@ (d :> Dir)

MkdirRaises(f, d) ==
    \E i \in 1..Len(d) : Exists(f, SubSeq(d, 1, i)) /\ ~IsDir(f, SubSeq(d, 1, i))

\* FileExistsError when d itself is a file, NotADirectoryError when a
\* directory above it is
MkdirError(f, d) ==
    IF Exists(f, d) THEN "[Errno 17] File exists: '" \o PathStr(d) \o "'"
    ELSE "[Errno 20] Not a directory: '" \o PathStr(d) \o "'"

\* the archive file while it is being written
ZIP_BYTES == "PK"

\* zipfile.ZipFile(zip_path, "w"): the file is created or truncated
OpenForWriting(f, p) ==
    LET real == resolve(f, p)
    IN [q \in DOMAIN f \cup {real} |-> IF q = real THEN File(ZIP_BYTES) ELSE f[q]]

package_release_open_first(f, sd, zp) ==
    LET s == resolve(f, sd)
        opened == IF MkdirRaises(f, Parent(zp)) \/ IsDir(f, zp) THEN f
                  ELSE OpenForWriting(Mkdirs(f, Parent(zp)), zp)
    IN IF ~Exists(f, s)
       THEN [exc |-> "Source directory not found: " \o PathStr(s), fs |-> opened]
       ELSE IF ~IsDir(f, s)
       THEN [exc |-> "Source path is not a directory: " \o PathStr(s), fs |-> opened]
       ELSE IF MkdirRaises(f, Parent(zp))
       THEN [exc |-> MkdirError(f, Parent(zp)), fs |-> f]
       ELSE IF IsDir(f, zp)
       THEN [exc |-> "[Errno 21] Is a directory: '" \o PathStr(zp) \o "'",
             fs |-> Mkdirs(f, Parent(zp))]
       ELSE [exc |-> None, fs |-> opened]

package_release_open(f, sd, zp) ==
    LET s == resolve(f, sd)
    IN IF ~Exists(f, s)
       THEN [exc |-> "Source directory not found: " \o PathStr(s), fs |-> f]
       ELSE IF ~IsDir(f, s)
       THEN [exc |-> "Source path is not a directory: " \o PathStr(s), fs |-> f]
       ELSE IF MkdirRaises(f, Parent(zp))
       THEN [exc |-> MkdirError(f, Parent(zp)), fs |-> f]
       ELSE IF IsDir(f, zp)
       THEN [exc |-> "[Errno 21] Is a directory: '" \o PathStr(zp) \o "'",
             fs |-> Mkdirs(f, Parent(zp))]
       ELSE [exc |-> None, fs |-> OpenForWriting(Mkdirs(f, Parent(zp)), zp)]

(***************************************************************************)
(* main(argv): what it prints and returns.                                 *)
(***************************************************************************)
ErrorLine(msg) == "Error: " \o msg
SuccessLine(zp) == "Successfully packaged release to " \o PathStr(zp)

\* the except branch: print(f"Error: {exc}", file=sys.stderr); return 1
main_except_returns_0(msg) == [result |-> 0, stdout |-> "", stderr |-> ErrorLine(msg)]

main_except(msg) == [result |-> 1, stdout |-> "", stderr |-> ErrorLine(msg)]

\* print(f"Successfully packaged release to {zip_path}"); return 0
main_success(zp) == [result |-> 0, stdout |-> SuccessLine(zp), stderr |-> ""]

(***************************************************************************)
(* The filesystems a run starts from: a source directory holding at most   *)
(* MaxLeaves files and symbolic links drawn from LeafUniverse (paths from  *)
(* the source root) with the directories that lead to them, beside a       *)
(* regular file /notadir and an older archive /old.zip.                    *)
(***************************************************************************)
SrcNames == {"proj", "data"}

FileLeaves ==
    {<<"g">>, <<"rel.zip">>, <<".zip">>, <<"tmp">>,
     <<"a", "g">>, <<"a", "r.zip">>,
     <<"data", "a", "g">>, <<"a", "data", "g">>,
     <<"node_modules", ".cache", "g">>, <<"node_modules", ".cache2", "g">>,
     <<"a", "node_modules", ".cache", "g">>,
     <<"packages", "sidflow-web", ".next", "cache", "g">>}

LeafUniverse ==
    {[path |-> p, node |-> File("bytes of " \o JoinSlash(p))] : p \in FileLeaves}
    \cup {[path |-> <<"l">>, node |-> Symlink(t)] : t \in {"a", "g", "nowhere"}}
    \cup {[path |-> <<"a", "l">>, node |-> Symlink("g")]}

\* no two leaves at one path, and no leaf below another
Compatible(L) ==
    \A x, y \in L : x # y => ~IsPrefix(x.path, y.path)

LeafSets ==
    {L \in SUBSET LeafUniverse : Cardinality(L) <= MaxLeaves /\ Compatible(L)}

TreeFs(sn, L) ==
    LET leafAt == [p \in {x.path : x \in L} |->
                      (CHOOSE x \in L : x.path = p).node]
        inner == UNION {{SubSeq(x.path, 1, i) : i \in 0..(Len(x.path) - 1)}
                           : x \in L}
        paths == {<<sn>> \o p : p \in DOMAIN leafAt \cup inner \cup {<<>>}}
                     \cup {<<"notadir">>, <<"old.zip">>}
    IN [q \in paths |->
          IF q = <<"notadir">> THEN File("x")
          ELSE IF q = <<"old.zip">> THEN File("an older archive")
          ELSE IF Tail(q) \in DOMAIN leafAt THEN leafAt[Tail(q)]
          ELSE Dir]

\* the command lines: --src-dir, --archive-name, --zip-path (NoPath and ""
\* when the option and its environment variable are absent or empty)
SrcDirArgs == {NoPath, <<"notadir">>} \cup {<<sn>> : sn \in SrcNames}
ArchiveNameArgs == {"", "rel", "."}
ZipPathArgs(sd) ==
    {NoPath, sd \o <<"out.bin">>, <<"out", "rel.zip">>, <<"old.zip">>,
     <<"notadir", "x.zip">>}

Init ==
    /\ fs \in {TreeFs(sn, L) : sn \in SrcNames, L \in LeafSets}
    /\ pc = "start"
    /\ src_dir = NoPath
    /\ archive_name = ""
    /\ zip_path = NoPath
    /\ src = NoPath
    /\ stack = <<>>
    /\ root = NoPath
    /\ files = {}
    /\ zipf = <<>>
    /\ visited = <<>>
    /\ result = -1
    /\ stdout = ""
    /\ stderr = ""

(***************************************************************************)
(* main: argument handling, package_release's validation, the creation of  *)
(* the archive file, and the start of the walk at the source root.         *)
(***************************************************************************)
Exit(r) ==
    /\ pc' = "done"
    /\ result' = r.result
    /\ stdout' = r.stdout
    /\ stderr' = r.stderr

Main ==
    /\ pc = "start"
    /\ \E sd \in SrcDirArgs, an \in ArchiveNameArgs :
         \E zp \in ZipPathArgs(sd) :
           IF sd = NoPath
           THEN /\ Exit(main_except("SRC_DIR (--src-dir) is required"))
                /\ UNCHANGED <<fs, src_dir, archive_name, zip_path, src, stack>>
           ELSE LET an2 == IF an = "" THEN DEFAULT_ARCHIVE_NAME ELSE an
                    zp2 == IF zp = NoPath
                           THEN sd \o PurePosixPath(an2 \o ".zip").parts
                           ELSE zp
                    o   == package_release_open(fs, sd, zp2)
                IN /\ src_dir' = sd
                   /\ archive_name' = an2
                   /\ zip_path' = zp2
                   /\ fs' = o.fs
                   /\ IF o.exc # None
                      THEN /\ Exit(main_except(o.exc))
                           /\ UNCHANGED <<src, stack>>
                      ELSE /\ pc' = "walking"
                           /\ src' = resolve(fs, sd)
                           /\ stack' = <<resolve(fs, sd)>>
                           /\ UNCHANGED <<result, stdout, stderr>>
    /\ UNCHANGED <<root, files, zipf, visited>>

(***************************************************************************)
(* iter_files: os.walk yields the next directory.  Its subdirectories are  *)
(* pruned and the survivors that are no links are queued to be walked      *)
(* next, in the order of the listing (any order); its file names are left  *)
(* to be iterated unless the directory itself is to be skipped.            *)
(***************************************************************************)
WalkDir ==
    /\ pc = "walking"
    /\ files = {}
    /\ stack # <<>>
    /\ LET top == Head(stack)
           rel_root_posix == relative_to(top, src)
           dirs == prune(rel_root_posix, walk_dirs(fs, top))
           nondirs == walk_nondirs(fs, top)
       IN /\ \E order \in Perms(walk_descend(fs, top, dirs)) :
                stack' = [i \in 1..Len(order) |-> Append(top, order[i])]
                             \o Tail(stack)
          /\ root' = top
          /\ visited' = Append(visited, top)
          /\ files' = IF should_skip_dir(rel_root_posix) THEN {} ELSE nondirs
    /\ UNCHANGED <<fs, pc, src_dir, archive_name, zip_path, src, zipf,
                   result, stdout, stderr>>

\* the next file name has the suffix .zip: continue
SkipZip ==
    /\ pc = "walking"
    /\ \E n \in files :
         LET rel_file == joinpath(relative_to(root, src), RelPath(<<n>>))
         IN /\ is_skipped_zip(rel_file)
            /\ files' = files \ {n}
    /\ UNCHANGED <<fs, pc, src_dir, archive_name, zip_path, src, stack, root,
                   zipf, visited, result, stdout, stderr>>

\* the next file name is yielded and package_release adds it to the archive
AddFileToZip ==
    /\ pc = "walking"
    /\ \E n \in files :
         LET rel_file == joinpath(relative_to(root, src), RelPath(<<n>>))
         IN /\ ~is_skipped_zip(rel_file)
            /\ zipf' = add_file_to_zip(zipf, fs, Append(root, n),
                                       arc_path_of(archive_name, rel_file),
                                       rel_file)
            /\ files' = files \ {n}
    /\ UNCHANGED <<fs, pc, src_dir, archive_name, zip_path, src, stack, root,
                   visited, result, stdout, stderr>>

\* reading the next regular file fails (zipf.write raises OSError): the
\* with block closes the archive and main's except branch reports it
AddFileRaises ==
    /\ pc = "walking"
    /\ \E n \in files :
         LET rel_file == joinpath(relative_to(root, src), RelPath(<<n>>))
         IN /\ ~is_skipped_zip(rel_file)
            /\ ~IsSymlink(fs, Append(root, n))
            /\ Exit(main_except("[Errno 13] Permission denied: '"
                                   \o PathStr(Append(root, n)) \o "'"))
    /\ UNCHANGED <<fs, src_dir, archive_name, zip_path, src, stack, root,
                   files, zipf, visited>>

\* the walk is exhausted: the archive is closed and main reports success
Finish ==
    /\ pc = "walking"
    /\ files = {}
    /\ stack = <<>>
    /\ Exit(main_success(zip_path))
    /\ UNCHANGED <<fs, src_dir, archive_name, zip_path, src, stack, root,
                   files, zipf, visited>>

Next ==
    \/ Main
    \/ WalkDir
    \/ SkipZip
    \/ AddFileToZip
    \/ AddFileRaises
    \/ Finish

Spec == Init /\ [][Next]_vars

(***************************************************************************)
(* The vocabulary of the properties, stated over the filesystem and the    *)
(* archive alone.                                                          *)
(***************************************************************************)
Entries == Range(zipf)

\* the path of a node of the source tree from the source root
RelOf(p) == SubSeq(p, Len(src) + 1, Len(p))

\* the nodes below the source root
TreeNodes == {p \in DOMAIN fs : Len(p) > Len(src) /\ IsPrefix(src, p)}

\* a directory, given by its path from the source root, that is ignored:
\* by its name, or by the start of its POSIX path
IgnoredDir(d) ==
    \/ d[Len(d)] \in IGNORED_DIRS
    \/ \E pre \in {"packages/sidflow-web/.next/cache", "node_modules/.cache"} :
          StartsWith(JoinSlash(d), pre)

\* some proper ancestor directory of rel is ignored
UnderIgnoredDir(rel) ==
    \E i \in 1..(Len(rel) - 1) : IgnoredDir(SubSeq(rel, 1, i))

\* some proper ancestor of p below the source root is a symbolic link
UnderSymlink(p) ==
    \E i \in (Len(src) + 1)..(Len(p) - 1) : IsSymlink(fs, SubSeq(p, 1, i))

EntriesOf(p) == {i \in 1..Len(zipf) : zipf[i].abs_path = p}

FileSuffix(p) == suffix(RelPath(p))

Succeeded == pc = "done" /\ result = 0

EndsWith(s, t) == Len(s) >= Len(t) /\ SubSeq(s, Len(s) - Len(t) + 1, Len(s)) = t

(***************************************************************************)
(* C1: the archive holds no entry that lies under an ignored directory: no *)
(* entry's path from the source root has a proper ancestor whose name is   *)
(* in IGNORED_DIRS or whose POSIX path starts with an ignored prefix.      *)
(***************************************************************************)
C1_NoEntryUnderIgnoredDir ==
    \A e \in Entries : ~UnderIgnoredDir(RelOf(e.abs_path))

\* a successful run over a tree with a file under a directory ignored by
\* name and a file under a directory ignored by prefix, and something kept
C1_Witness ==
    /\ Succeeded
    /\ zipf # <<>>
    /\ \E p \in TreeNodes :
          \E i \in 1..(Len(RelOf(p)) - 1) : RelOf(p)[i] \in IGNORED_DIRS
    /\ \E p \in TreeNodes :
          /\ UnderIgnoredDir(RelOf(p))
          /\ \A i \in 1..(Len(RelOf(p)) - 1) : RelOf(p)[i] \notin IGNORED_DIRS

(***************************************************************************)
(* C2: after a successful run every regular file and every symbolic link   *)
(* (one that points to a directory and a dangling one included) that lies  *)
(* in a non-skipped directory and has no .zip suffix has exactly one       *)
(* archive entry.                                                          *)
(***************************************************************************)
C2_ExactlyOneEntryPerFileOrSymlink ==
    Succeeded =>
        \A p \in TreeNodes :
            (/\ fs[p].kind \in {"file", "symlink"}
             /\ ~UnderIgnoredDir(RelOf(p))
             /\ ~UnderSymlink(p)
             /\ FileSuffix(p) # ".zip")
            => Cardinality(EntriesOf(p)) = 1

C4_RootSkippedByItsName ==
    (pc # "start" /\ src # NoPath /\ src[Len(src)] \in IGNORED_DIRS)
        => zipf = <<>>

(***************************************************************************)
(* C4, amended: the skip predicate is applied to the source root by its    *)
(* path from itself ("."), whose name is empty, so the root is never       *)
(* skipped: a successful run over a root whose own name is an ignored      *)
(* directory name has walked the root and archived each of its files that  *)
(* has no .zip suffix.                                                     *)
(***************************************************************************)
C4_RootNeverSkipped ==
    (Succeeded /\ src[Len(src)] \in IGNORED_DIRS) =>
        /\ src \in Range(visited)
        /\ \A p \in TreeNodes :
              (Len(p) = Len(src) + 1 /\ ~IsDir(fs, p) /\ FileSuffix(p) # ".zip")
              => EntriesOf(p) # {}

C4_Witness ==
    /\ Succeeded
    /\ src[Len(src)] \in IGNORED_DIRS
    /\ \E e \in Entries : Len(e.abs_path) = Len(src) + 1

(***************************************************************************)
(* C5: after a successful run, a file (an entry of a directory that is no  *)
(* directory) of a non-skipped directory is left out of the archive if and *)
(* only if its name's suffix is exactly .zip, whatever else its name is.   *)
(***************************************************************************)
C5_LeftOutIffZipSuffix ==
    Succeeded =>
        \A p \in TreeNodes :
            (~IsDir(fs, p) /\ ~UnderIgnoredDir(RelOf(p)) /\ ~UnderSymlink(p))
            => (EntriesOf(p) = {} <=> FileSuffix(p) = ".zip")

\* a .zip file below the root was left out, and a file named like an
\* ignored directory and a file named .zip were taken
C5_Witness ==
    /\ Succeeded
    /\ \E p \in TreeNodes :
          Len(RelOf(p)) > 1 /\ FileSuffix(p) = ".zip" /\ ~UnderIgnoredDir(RelOf(p))
    /\ \E e \in Entries : e.abs_path[Len(e.abs_path)] \in IGNORED_DIRS
    /\ \E e \in Entries : e.abs_path[Len(e.abs_path)] = ".zip"

(***************************************************************************)
(* C6: the archive never includes itself: no entry is made from the file   *)
(* at zip_path, whichever zip_path is chosen.                              *)
(***************************************************************************)
C6_ArchiveNeverIncludesItself ==
    \A e \in Entries : e.abs_path # zip_path

(***************************************************************************)
(* C7 as stated: every entry's path in the archive starts with             *)
(* <archive_name>/.                                                        *)
(***************************************************************************)
C7_EveryEntryStartsWithArchiveName ==
    \A e \in Entries : StartsWith(e.filename, archive_name \o "/")

(***************************************************************************)
(* C7, amended: when archive_name is a plain folder name (not empty, not   *)
(* ".", without "/"), every entry's path in the archive is                 *)
(* <archive_name>/<path of the file from the source root>, joined by "/".  *)
(***************************************************************************)
PlainFolderName(s) == s # "" /\ s # "." /\ RFind(s, "/") = 0

C7_EntryPathUnderPlainArchiveName ==
    PlainFolderName(archive_name) =>
        \A e \in Entries :
            e.filename = archive_name \o "/" \o JoinSlash(RelOf(e.abs_path))

\* a regular file two levels down and a symbolic link, both archived
C7_Witness ==
    /\ Succeeded
    /\ PlainFolderName(archive_name)
    /\ \E e \in Entries : Len(RelOf(e.abs_path)) >= 2
    /\ \E e \in Entries : IsSymlink(fs, e.abs_path)

(***************************************************************************)
(* C8: main returns 0 exactly when package_release ran to its end, and     *)
(* then prints the success message; it returns 1 with an "Error: ..." line *)
(* on the error stream when --src-dir is absent, when the source does not  *)
(* exist (the line names the path), when it is no directory, and when      *)
(* anything else is raised; a run that returns 1 prints no success message.*)
(***************************************************************************)
WalkExhausted == src # NoPath /\ stack = <<>> /\ files = {}

InOrUnderIgnoredDir(rel) == \E i \in 1..Len(rel) : IgnoredDir(SubSeq(rel, 1, i))

C9_PrunedBeforeDescending ==
    /\ \A i \in 1..Len(visited) : ~InOrUnderIgnoredDir(RelOf(visited[i]))
    /\ \A i \in 1..Len(stack) : ~InOrUnderIgnoredDir(RelOf(stack[i]))
    /\ \A i, j \in 1..Len(visited) : visited[i] = visited[j] => i = j

\* the walk went below the root in a tree with a directory under an
\* ignored one
C9_Witness ==
    /\ Succeeded
    /\ Len(visited) >= 2
    /\ \E p \in TreeNodes :
          fs[p].kind = "dir" /\ UnderIgnoredDir(RelOf(p))

(***************************************************************************)
(* C10: a run whose source does not exist or is no directory ends without  *)
(* having changed the filesystem: no directory made, and the file at       *)
(* zip_path neither created nor truncated.                                 *)
(***************************************************************************)
C10_InvalidSourceLeavesFilesystem ==
    [][(/\ pc = "start"
        /\ src_dir' # NoPath
        /\ (~Exists(fs, src_dir') \/ ~IsDir(fs, src_dir')))
       => (pc' = "done" /\ fs' = fs)]_vars

\* the source is missing and the older archive at zip_path is as it was
C10_Witness ==
    /\ pc = "done"
    /\ src_dir # NoPath
    /\ ~Exists(fs, src_dir)
    /\ zip_path = <<"old.zip">>
    /\ fs[zip_path] = File("an older archive")

====
